---- MODULE Spec2Model ----
(***************************************************************************)
(* Altera license server: the License / Activation / BannedMachine store   *)
(* and the request handlers of src/routes/license.py and src/main.py.      *)
(*                                                                         *)
(* Spec      every handler runs as one transaction (one request at a time) *)
(*           on a store that starts empty (init_db).                       *)
(* SpecCore  the three core handlers and bans on a License table that is   *)
(*           already populated and never edited.                           *)
(* SpecConc  activate and deactivate requests whose store reads and        *)
(*           commits interleave (READ COMMITTED, no locks, no unique       *)
(*           constraint on activation).                                    *)
(***************************************************************************)
EXTENDS Integers, Sequences, FiniteSets, TLC

(* ------------------------------ bounds -------------------------------- *)
\* Activation primary keys handed out in one behaviour: 1..MaxId.
MaxId == 2
\* max_seats values an admin payload carries: 0..MaxSeats.
MaxSeats == 1

\* License keys requests name, and the ones the admin creates licenses for
\* in Spec: there "K2" is a key without a license.
Keys == {"K1", "K2"}
AdminKeys == {"K1"}
Machines == {"M1", "M2"}
\* SpecConc: the requests in flight.
Procs == {"p1", "p2"}
Emails == {"owner@acme.io"}
Plans == {"Professional"}
\* SpecEdit: the emails and plans a license goes through when the admin
\* patches them.
EditedEmails == {"owner@acme.io", "it@acme.io"}
EditedPlans == {"Professional", "Starter"}
\* Calendar days (date.today() and License.expiry). The handlers only compare
\* expiry < today; two days give expiry before, on and after today.
Dates == {0, 1}
SeatValues == 0..MaxSeats

\* Python's None in an Optional[str] field.
None == "None"
\* Optional[str] usernames a request can carry: absent or a name.
Usernames == {None, "alice"}

VARIABLES
    licenses,      \* rows of table license
    activations,   \* rows of table activation
    banned,        \* machine_id of the rows of table bannedmachine
    nextId,        \* next value of activation.id (autoincrement primary key)
    today,         \* date.today()
    last,          \* the latest step: the operation and its response
    pc,            \* SpecConc: position of each in-flight request
    req,           \* SpecConc: the request each process handles
    loc            \* SpecConc: the handler's local variables

vars == <<licenses, activations, banned, nextId, today, last, pc, req, loc>>
store == <<licenses, activations, banned>>

(* ------------------------------ models.py ----------------------------- *)
\* License(key, email, plan, expiry, max_seats); key is unique.
License(k, e, p, x, n) ==
    [key |-> k, email |-> e, plan |-> p, expiry |-> x, max_seats |-> n]

\* Activation(id, license_key, machine_id, username, revoked=False).
\* activated_at is written once and read by no handler; it is left out.
Activation(i, k, m, u) ==
    [id |-> i, license_key |-> k, machine_id |-> m, username |-> u,
     revoked |-> FALSE]

\* str(date): the ISO text of a date, a string and not the date itself.
DateStr(d) == "day-" \o ToString(d)

\* date.fromisoformat: the date whose ISO text is s.
FromIso(s) == CHOOSE d \in Dates : DateStr(d) = s

(* --------------------------- routes/license.py ------------------------ *)
\* make_token: the signed payload.
make_token(lic, m) ==
    [sub |-> lic.email, key |-> lic.key, machine |-> m, plan |-> lic.plan,
     expiry |-> DateStr(lic.expiry)]

\* A token jwt.decode rejects (bad signature or malformed).
BadToken ==
    [sub |-> "?", key |-> "?", machine |-> "?", plan |-> "?", expiry |-> "?"]

\* The tokens signed with SECRET: the range of make_token.
SignedTokens ==
    {make_token(License(k, e, p, x, 0), m) :
        k \in Keys, e \in EditedEmails, p \in EditedPlans, x \in Dates,
        m \in Machines}

\* The tokens presented to validate: for every key and machine the token
\* signed while the license expired on day 1, and a forged one. validate reads
\* only key and machine from the payload (lines 144-145).
Tokens ==
    {t \in SignedTokens :
        t.sub \in Emails /\ t.plan \in Plans /\ t.expiry = DateStr(1)}
    \cup {BadToken}

\* jwt.decode succeeds.
Decodes(t) == t \in SignedTokens

\* The ban lookup left out.
IsBanned_Never(m) == FALSE

\* select(BannedMachine).where(machine_id == m).first() is not None
IsBanned(m) == m \in banned

\* select(License).where(License.key == k)
FindLicense(k) == {l \in licenses : l.key = k}

\* The expiry comparison left out.
IsExpired_Never(lic) == FALSE

\* lic.expiry < date.today()
IsExpired(lic) == lic.expiry < today

\* The lookup of a pair's live row without the revoked == False filter.
LiveFor_IgnoresRevoked(rows, k, m) ==
    {a \in rows : a.license_key = k /\ a.machine_id = m}

\* select(Activation).where(license_key == k, machine_id == m, revoked == False)
LiveFor(rows, k, m) ==
    {a \in rows : a.license_key = k /\ a.machine_id = m /\ a.revoked = FALSE}

\* select(Activation).where(license_key == k, revoked == False).all()
ActiveSeats(rows, k) ==
    {a \in rows : a.license_key = k /\ a.revoked = FALSE}

\* The seat check off by one: a license that is exactly full still admits.
SeatLimitHit_OffByOne(n, lic) == n > lic.max_seats

\* len(active_seats) >= lic.max_seats
SeatLimitHit(n, lic) == n >= lic.max_seats

\* f"Seat limit reached ({lic.max_seats} seats)"
SeatLimitMsg(n) == "Seat limit reached (" \o ToString(n) \o " seats)"

\* The username written whether or not the request carries one.
Truthy_Always(u) == TRUE

\* if req.username: a None or empty username is not written.
Truthy(u) == u # None /\ u # ""

\* The username written to every row of the license, not to one row.
SetUsername_WholeLicense(rows, a, u) ==
    {IF b.license_key = a.license_key THEN [b EXCEPT !.username = u] ELSE b :
        b \in rows}

\* existing.username = req.username; the UPDATE of the row with that id.
SetUsername(rows, a, u) ==
    (rows \ {a}) \cup {[a EXCEPT !.username = u]}

\* session.delete(activation) in place of the revoked flag.
Revoke_Deletes(rows, a) == rows \ {a}

\* activation.revoked = True; the UPDATE of the row with that id.
Revoke(rows, a) ==
    (rows \ {a}) \cup {[a EXCEPT !.revoked = TRUE]}

\* The first() of a query: its only row when there is one, any of them when
\* the query has no ORDER BY and matches several.
First(S) == CHOOSE a \in S : \A b \in S : a.id <= b.id

NoBody == [valid |-> FALSE, plan |-> "", email |-> "", expired |-> FALSE,
           expiry_date |-> None, message |-> None, license_key |-> None,
           token |-> BadToken]

\* HTTPException(code, detail)
Raise(op, code, detail) ==
    [op |-> op, code |-> code, msg |-> detail, body |-> NoBody, row |-> 0]

\* The body activate returns: token, email, plan, expiry_date.
ActivateBody(lic, m) ==
    [NoBody EXCEPT !.token = make_token(lic, m), !.email = lic.email,
                   !.plan = lic.plan, !.expiry_date = DateStr(lic.expiry)]

\* A step of the environment: no request, no response.
Idle(op) ==
    [op |-> op, code |-> 0, msg |-> "", body |-> NoBody, row |-> 0]

\* ValidateResponse(valid, plan, email, expired, expiry_date, message, license_key)
ValidateResponse(v, p, e, x, d, msg, k) ==
    [NoBody EXCEPT !.valid = v, !.plan = p, !.email = e, !.expired = x,
                   !.expiry_date = d, !.message = msg, !.license_key = k]

\* A handler that returns normally: HTTP 200 with a body.
Return(op, b) ==
    [op |-> op, code |-> 200, msg |-> "", body |-> b, row |-> 0]

\* The response of a handler that committed a write to the activation row
\* with primary key id.
Wrote(resp, id) == [resp EXCEPT !.row = id]

\* The only row of a query on a unique column.
One(S) == CHOOSE x \in S : TRUE

\* POST /license/activate, as one transaction.
Activate(k, m, u) ==
    LET found == FindLicense(k)
        lic == One(found)
        existing == LiveFor(activations, k, m)
        active_seats == ActiveSeats(activations, k)
    IN  /\ UNCHANGED <<licenses, banned, today, pc, req, loc>>
        /\ IF IsBanned(m) THEN
              /\ last' = Raise("activate", 403, "This machine has been banned")
              /\ UNCHANGED <<activations, nextId>>
           ELSE IF found = {} THEN
              /\ last' = Raise("activate", 404, "License not found")
              /\ UNCHANGED <<activations, nextId>>
           ELSE IF IsExpired(lic) THEN
              /\ last' = Raise("activate", 403, "License has expired")
              /\ UNCHANGED <<activations, nextId>>
           ELSE IF existing # {} THEN
              /\ activations' = IF Truthy(u)
                                THEN SetUsername(activations, First(existing), u)
                                ELSE activations
              /\ last' = Wrote(Return("activate", ActivateBody(lic, m)),
                               IF Truthy(u) THEN First(existing).id ELSE 0)
              /\ UNCHANGED nextId
           ELSE IF SeatLimitHit(Cardinality(active_seats), lic) THEN
              /\ last' = Raise("activate", 403, SeatLimitMsg(lic.max_seats))
              /\ UNCHANGED <<activations, nextId>>
           ELSE
              /\ nextId <= MaxId
              /\ activations' = activations \cup {Activation(nextId, k, m, u)}
              /\ nextId' = nextId + 1
              /\ last' = Wrote(Return("activate", ActivateBody(lic, m)), nextId)

\* The comparison of the token's machine with the caller's left out.
MachineMismatch_Never(t, m) == FALSE

\* payload.get("machine") != req.machine_id
MachineMismatch(t, m) == t.machine # m

\* POST /license/validate: reads only, always answers with a body.
ValidateBody(t, m) ==
    LET found == FindLicense(t.key)
        lic == One(found)
        expired == IsExpired(lic)
    IN  IF IsBanned(m) THEN
            ValidateResponse(FALSE, "", "", FALSE, None,
                             "This machine has been banned", None)
        ELSE IF ~Decodes(t) THEN
            ValidateResponse(FALSE, "", "", FALSE, None, "Invalid token", None)
        ELSE IF MachineMismatch(t, m) THEN
            ValidateResponse(FALSE, "", "", FALSE, None, "Machine ID mismatch", None)
        ELSE IF found = {} THEN
            ValidateResponse(FALSE, "", "", FALSE, None, "License not found", None)
        ELSE IF LiveFor(activations, t.key, m) = {} THEN
            ValidateResponse(FALSE, "", "", FALSE, None,
                             "Activation revoked or not found", None)
        ELSE
            ValidateResponse(~expired, lic.plan, lic.email, expired,
                             DateStr(lic.expiry), None, t.key)

\* validate made to write: it revokes the pair's live row when it finds the
\* license expired.
Validate_RevokesExpired(t, m) ==
    /\ last' = Return("validate", ValidateBody(t, m))
    /\ activations' =
         IF ValidateBody(t, m).expired
         THEN {IF a \in LiveFor(activations, t.key, m)
               THEN [a EXCEPT !.revoked = TRUE] ELSE a : a \in activations}
         ELSE activations
    /\ UNCHANGED <<licenses, banned, nextId, today, pc, req, loc>>

Validate(t, m) ==
    /\ last' = Return("validate", ValidateBody(t, m))
    /\ UNCHANGED <<licenses, activations, banned, nextId, today, pc, req, loc>>

\* POST /license/deactivate, as one transaction. It takes an ActivateRequest,
\* whose username it ignores, and makes no ban check.
Deactivate(k, m, u) ==
    LET activation == LiveFor(activations, k, m)
    IN  /\ UNCHANGED <<licenses, banned, nextId, today, pc, req, loc>>
        /\ IF activation = {} THEN
              /\ last' = Raise("deactivate", 404, "Active activation not found")
              /\ UNCHANGED activations
           ELSE
              /\ activations' = Revoke(activations, First(activation))
              /\ last' = Wrote([Return("deactivate", NoBody)
                                  EXCEPT !.msg = "Deactivated successfully"],
                               First(activation).id)

(* ------------------------------- main.py ------------------------------ *)
\* verify_admin: the x-admin-key header equals ADMIN_SECRET.
verify_admin(authorised) == authorised

\* POST /admin/create-license
create_license(authorised, k, e, p, xs, n) ==
    /\ UNCHANGED <<activations, banned, nextId, today, pc, req, loc>>
    /\ IF ~verify_admin(authorised) THEN
          /\ last' = Raise("create_license", 403, "Forbidden")
          /\ UNCHANGED licenses
       ELSE IF FindLicense(k) # {} THEN
          /\ last' = Raise("create_license", 400,
                           "A license with this key already exists")
          /\ UNCHANGED licenses
       ELSE
          /\ licenses' = licenses \cup {License(k, e, p, FromIso(xs), n)}
          /\ last' = Return("create_license", NoBody)

\* An Optional payload field: {} is None, {v} is the value v.
Given(opt, old) == IF opt = {} THEN old ELSE One(opt)

\* PATCH /admin/licenses/{license_key}
update_license(authorised, k, e, p, xs, n) ==
    LET found == FindLicense(k)
        lic == One(found)
        new == License(k, Given(e, lic.email), Given(p, lic.plan),
                       IF xs = {} THEN lic.expiry ELSE FromIso(One(xs)),
                       Given(n, lic.max_seats))
    IN  /\ UNCHANGED <<activations, banned, nextId, today, pc, req, loc>>
        /\ IF ~verify_admin(authorised) THEN
              /\ last' = Raise("update_license", 403, "Forbidden")
              /\ UNCHANGED licenses
           ELSE IF found = {} THEN
              /\ last' = Raise("update_license", 404, "License not found")
              /\ UNCHANGED licenses
           ELSE
              /\ licenses' = (licenses \ {lic}) \cup {new}
              /\ last' = Return("update_license", NoBody)

\* DELETE /admin/licenses/{license_key}: the license and all its activations.
delete_license(authorised, k) ==
    LET found == FindLicense(k)
    IN  /\ UNCHANGED <<banned, nextId, today, pc, req, loc>>
        /\ IF ~verify_admin(authorised) THEN
              /\ last' = Raise("delete_license", 403, "Forbidden")
              /\ UNCHANGED <<licenses, activations>>
           ELSE IF found = {} THEN
              /\ last' = Raise("delete_license", 404, "License not found")
              /\ UNCHANGED <<licenses, activations>>
           ELSE
              /\ activations' = {a \in activations : a.license_key # k}
              /\ licenses' = licenses \ found
              /\ last' = Return("delete_license", NoBody)

(* ----------------------------- environment ---------------------------- *)
\* A row is added to table bannedmachine (machine_id is unique). The
\* repository has no route that writes this table: an operator does.
Ban(m) ==
    /\ m \notin banned
    /\ banned' = banned \cup {m}
    /\ last' = Idle("ban")
    /\ UNCHANGED <<licenses, activations, nextId, today, pc, req, loc>>

\* Midnight passes: date.today() advances.
Tick ==
    /\ today + 1 \in Dates
    /\ today' = today + 1
    /\ last' = Idle("tick")
    /\ UNCHANGED <<licenses, activations, banned, nextId, pc, req, loc>>

(* --------------------------- specification Spec ----------------------- *)
\* SpecConc: a handler's locals before it runs (code 0: no response yet).
NoLocals == [lic |-> {}, existing |-> {}, code |-> 0, msg |-> ""]
NoReq == [op |-> "-", key |-> "-", machine |-> "-", username |-> None]

Init ==
    /\ licenses = {}
    /\ activations = {}
    /\ banned = {}
    /\ nextId = 1
    /\ today = 0
    /\ last = Idle("init")
    /\ pc = [p \in Procs |-> "idle"]
    /\ req = [p \in Procs |-> NoReq]
    /\ loc = [p \in Procs |-> NoLocals]

DoActivate == \E k \in Keys, m \in Machines, u \in Usernames : Activate(k, m, u)
DoValidate == \E t \in Tokens, m \in Machines : Validate(t, m)
DoDeactivate == \E k \in Keys, m \in Machines : Deactivate(k, m, None)
\* A request whose x-admin-key is wrong is one case; the others carry a
\* payload. email and plan have one value each here and are not patched.
DoCreate ==
    \/ \E k \in AdminKeys :
          create_license(FALSE, k, One(Emails), One(Plans), DateStr(0), 0)
    \/ \E k \in AdminKeys, e \in Emails, p \in Plans, x \in Dates,
          n \in SeatValues : create_license(TRUE, k, e, p, DateStr(x), n)
DoUpdate ==
    \/ \E k \in AdminKeys : update_license(FALSE, k, {}, {}, {}, {})
    \/ \E k \in AdminKeys,
          x \in {{}} \cup {{DateStr(v)} : v \in Dates},
          n \in {{}} \cup {{v} : v \in SeatValues} :
            update_license(TRUE, k, {}, {}, x, n)
DoDelete == \E auth \in BOOLEAN, k \in AdminKeys : delete_license(auth, k)
DoBan == \E m \in Machines : Ban(m)

Next ==
    \/ DoActivate
    \/ DoValidate
    \/ DoDeactivate
    \/ DoCreate
    \/ DoUpdate
    \/ DoDelete
    \/ DoBan
    \/ Tick

Spec == Init /\ [][Next]_vars

(* ------------------------- specification SpecCore --------------------- *)
\* The admin has created two licenses and edits nothing afterwards: K1 with
\* one seat, valid through day 0; K2 valid through day 1.
InitCore ==
    /\ \E n \in SeatValues :
          licenses = {License("K1", One(Emails), One(Plans), 0, 1),
                      License("K2", One(Emails), One(Plans), 1, n)}
    /\ activations = {}
    /\ banned = {}
    /\ nextId = 1
    /\ today = 0
    /\ last = Idle("init")
    /\ pc = [p \in Procs |-> "idle"]
    /\ req = [p \in Procs |-> NoReq]
    /\ loc = [p \in Procs |-> NoLocals]

NextCore ==
    \/ DoActivate
    \/ DoValidate
    \/ DoDeactivate
    \/ DoBan
    \/ Tick

SpecCore == InitCore /\ [][NextCore]_vars

(* ------------------------- specification SpecEdit --------------------- *)
\* One license, K1, whose email, plan and expiry the admin patches while
\* machines activate, validate and deactivate and the date advances. validate
\* is given every token activate can have issued for K1 at any earlier time,
\* whatever email, plan and expiry the license had then.
IssuedTokens == {t \in SignedTokens : t.key = "K1"}

InitEdit ==
    /\ licenses = {License("K1", "owner@acme.io", "Professional", 0, 1)}
    /\ activations = {}
    /\ banned = {}
    /\ nextId = 1
    /\ today = 0
    /\ last = Idle("init")
    /\ pc = [p \in Procs |-> "idle"]
    /\ req = [p \in Procs |-> NoReq]
    /\ loc = [p \in Procs |-> NoLocals]

\* Each token is presented by the machine it was issued to.
DoValidateIssued == \E t \in IssuedTokens : Validate(t, t.machine)
\* A PATCH payload that carries one field: email, plan or expiry.
DoEdit ==
    \/ \E e \in EditedEmails : update_license(TRUE, "K1", {e}, {}, {}, {})
    \/ \E p \in EditedPlans : update_license(TRUE, "K1", {}, {p}, {}, {})
    \/ \E x \in Dates : update_license(TRUE, "K1", {}, {}, {DateStr(x)}, {})

NextEdit ==
    \/ DoActivate
    \/ DoValidateIssued
    \/ DoDeactivate
    \/ DoEdit
    \/ DoBan
    \/ Tick

SpecEdit == InitEdit /\ [][NextEdit]_vars

(* ------------------------- specification SpecConc --------------------- *)
(* Requests in flight at once. Each handler runs in its own Session; every *)
(* statement it sends reads the rows committed so far, and session.commit() *)
(* writes its row at once. A step is one statement together with the code  *)
(* that follows it up to the next statement.                               *)

Respond(p, code, detail) ==
    /\ loc' = [loc EXCEPT ![p].code = code, ![p].msg = detail]
    /\ pc' = [pc EXCEPT ![p] = "done"]

Goto(p, label) == pc' = [pc EXCEPT ![p] = label]

\* A request arrives.
Start(p, op, k, m, u) ==
    /\ pc[p] = "idle"
    /\ req' = [req EXCEPT ![p] = [op |-> op, key |-> k, machine |-> m,
                                  username |-> u]]
    /\ pc' = [pc EXCEPT ![p] = IF op = "activate" THEN "check_banned"
                                                  ELSE "d_select"]
    /\ UNCHANGED <<licenses, activations, banned, nextId, today, last, loc>>

\* activate: check_banned(req.machine_id, session)
A_CheckBanned(p) ==
    /\ pc[p] = "check_banned"
    /\ IF IsBanned(req[p].machine)
       THEN Respond(p, 403, "This machine has been banned")
       ELSE Goto(p, "lookup") /\ UNCHANGED loc
    /\ UNCHANGED <<licenses, activations, banned, nextId, today, last, req>>

\* activate: the license lookup and the expiry check on the row it loaded
A_Lookup(p) ==
    LET found == FindLicense(req[p].key)
    IN  /\ pc[p] = "lookup"
        /\ IF found = {} THEN Respond(p, 404, "License not found")
           ELSE IF IsExpired(One(found)) THEN Respond(p, 403, "License has expired")
           ELSE /\ loc' = [loc EXCEPT ![p].lic = found]
                /\ Goto(p, "existing")
        /\ UNCHANGED <<licenses, activations, banned, nextId, today, last, req>>

\* activate: the query for a live row of the pair; first() of several rows
\* is whichever the store returns first.
A_Existing(p) ==
    LET rows == LiveFor(activations, req[p].key, req[p].machine)
    IN  /\ pc[p] = "existing"
        /\ IF rows = {} THEN Goto(p, "count") /\ UNCHANGED loc
           ELSE \E a \in rows :
                  IF Truthy(req[p].username)
                  THEN /\ loc' = [loc EXCEPT ![p].existing = {a}]
                       /\ Goto(p, "set_username")
                  ELSE Respond(p, 200, "")
        /\ UNCHANGED <<licenses, activations, banned, nextId, today, last, req>>

\* activate: existing.username = req.username; commit. The UPDATE names the
\* row by its primary key and writes the username column alone.
A_SetUsername(p) ==
    LET id == One(loc[p].existing).id
        row == {a \in activations : a.id = id}
    IN  /\ pc[p] = "set_username"
        /\ activations' = SetUsername(activations, One(row), req[p].username)
        /\ Respond(p, 200, "")
        /\ UNCHANGED <<licenses, banned, nextId, today, last, req>>

\* activate: the seat count and the check against lic.max_seats
A_Count(p) ==
    LET active_seats == ActiveSeats(activations, req[p].key)
        lic == One(loc[p].lic)
    IN  /\ pc[p] = "count"
        /\ IF SeatLimitHit(Cardinality(active_seats), lic)
           THEN Respond(p, 403, SeatLimitMsg(lic.max_seats))
           ELSE Goto(p, "insert") /\ UNCHANGED loc
        /\ UNCHANGED <<licenses, activations, banned, nextId, today, last, req>>

\* activate: session.add(activation); session.commit()
A_Insert(p) ==
    /\ pc[p] = "insert"
    /\ nextId <= MaxId
    /\ activations' = activations \cup
          {Activation(nextId, req[p].key, req[p].machine, req[p].username)}
    /\ nextId' = nextId + 1
    /\ Respond(p, 200, "")
    /\ UNCHANGED <<licenses, banned, today, last, req>>

\* deactivate: the query for the live row of the pair
D_Select(p) ==
    LET rows == LiveFor(activations, req[p].key, req[p].machine)
    IN  /\ pc[p] = "d_select"
        /\ IF rows = {} THEN Respond(p, 404, "Active activation not found")
           ELSE \E a \in rows :
                  /\ loc' = [loc EXCEPT ![p].existing = {a}]
                  /\ Goto(p, "d_revoke")
        /\ UNCHANGED <<licenses, activations, banned, nextId, today, last, req>>

\* deactivate: activation.revoked = True; commit
D_Revoke(p) ==
    LET id == One(loc[p].existing).id
        row == {a \in activations : a.id = id}
    IN  /\ pc[p] = "d_revoke"
        /\ activations' = Revoke(activations, One(row))
        /\ Respond(p, 200, "Deactivated successfully")
        /\ UNCHANGED <<licenses, banned, nextId, today, last, req>>

\* One license, valid today, with any seat cap; no activation yet.
InitConc ==
    /\ \E n \in SeatValues :
          licenses = {License("K1", One(Emails), One(Plans), 1, n)}
    /\ activations = {}
    /\ banned = {}
    /\ nextId = 1
    /\ today = 0
    /\ last = Idle("init")
    /\ pc = [p \in Procs |-> "idle"]
    /\ req = [p \in Procs |-> NoReq]
    /\ loc = [p \in Procs |-> NoLocals]

DoStart ==
    \E p \in Procs, op \in {"activate", "deactivate"}, k \in Keys,
       m \in Machines, u \in Usernames : Start(p, op, k, m, u)

NextConc ==
    \/ DoStart
    \/ \E p \in Procs : A_CheckBanned(p)
    \/ \E p \in Procs : A_Lookup(p)
    \/ \E p \in Procs : A_Existing(p)
    \/ \E p \in Procs : A_SetUsername(p)
    \/ \E p \in Procs : A_Count(p)
    \/ \E p \in Procs : A_Insert(p)
    \/ \E p \in Procs : D_Select(p)
    \/ \E p \in Procs : D_Revoke(p)
    \/ DoBan

SpecConc == InitConc /\ [][NextConc]_vars

(* ================================ claims ============================== *)
\* The rows of pair (k, m), and its non-revoked rows.
PairRows(k, m) ==
    {a \in activations : a.license_key = k /\ a.machine_id = m}

LiveRows(k, m) == {a \in PairRows(k, m) : ~a.revoked}

\* The number of non-revoked activations of license key k.
LiveCount(k) ==
    Cardinality({a \in activations : a.license_key = k /\ ~a.revoked})

\* License key k has a license, and it is not expired today.
Unexpired(k) ==
    \E l \in licenses : l.key = k /\ l.expiry >= today

RowIds(rows) == {a.id : a \in rows}

\* Every license holds at most max_seats non-revoked activations.
SeatsWithinCap == \A l \in licenses : LiveCount(l.key) <= l.max_seats

\* SpecConc: every request in flight is an Activate for key k, from machines
\* that differ from one request to the next, none of them banned.
DistinctActivates(k) ==
    /\ banned = {}
    /\ \A p \in Procs : req[p].op = "activate" /\ req[p].key = k
    /\ \A p, q \in Procs : p # q => req[p].machine # req[q].machine

\* C1 (SpecConc). When Activate requests for one unexpired license, from
\* distinct unbanned machines, interleave at their store reads and commits,
\* the license never holds more than max_seats non-revoked activations; and
\* once max_seats + 1 or more such requests have all answered, one of them
\* was refused with "Seat limit reached".
C1_ConcurrentSeatCap ==
    \A l \in licenses :
      DistinctActivates(l.key) =>
        /\ LiveCount(l.key) <= l.max_seats
        /\ ( /\ Cardinality(Procs) > l.max_seats
             /\ \A p \in Procs : pc[p] = "done" )
           => \E p \in Procs :
                loc[p].code = 403 /\ loc[p].msg = SeatLimitMsg(l.max_seats)

\* C3 (SpecConc). In every reachable state, interleaved Activate requests
\* for one pair included, a (license_key, machine_id) pair has at most one
\* non-revoked Activation row.
C3_OneLiveRowPerPair ==
    \A k \in Keys, m \in Machines : Cardinality(LiveRows(k, m)) <= 1

\* An Activate for a pair without a live row, on a license that exists, is
\* refused with "Seat limit reached" and creates no row exactly when the
\* license's live count is at or above max_seats.
SeatCheckDecides(k, m, u) ==
    LET lic == CHOOSE l \in licenses : l.key = k
    IN  ( /\ last'.code = 403
          /\ last'.msg = SeatLimitMsg(lic.max_seats)
          /\ activations' = activations )
        <=> LiveCount(k) >= lic.max_seats

\* C2 as stated (SpecCore): the live count of every license stays within
\* max_seats, and every Activate for a pair without a live row is refused
\* with "Seat limit reached" exactly when the license is full.
C2_AsStated ==
    /\ []SeatsWithinCap
    /\ [][last'.op = "activate" =>
          \A k \in Keys, m \in Machines, u \in Usernames :
            ( /\ \E l \in licenses : l.key = k
              /\ LiveRows(k, m) = {}
              /\ Activate(k, m, u) )
            => SeatCheckDecides(k, m, u)]_vars

\* C2 amended (SpecCore): requests run one at a time and max_seats is never
\* edited. The live count of every license stays within max_seats after any
\* sequence of Activate, Validate, Deactivate and ban steps; and an Activate
\* that passes the ban and expiry checks, for a pair without a live row, is
\* refused with "Seat limit reached", creating no row, exactly when the
\* license's live count is at or above max_seats.
C2_SeatAccounting ==
    /\ []SeatsWithinCap
    /\ [][last'.op = "activate" =>
          \A k \in Keys, m \in Machines, u \in Usernames :
            ( /\ m \notin banned
              /\ Unexpired(k)
              /\ LiveRows(k, m) = {}
              /\ Activate(k, m, u) )
            => SeatCheckDecides(k, m, u)]_vars

\* An Activate was refused on a license that is exactly full, with at least
\* one seat taken.
C2_Witness ==
    /\ last.op = "activate"
    /\ last.code = 403
    /\ \E l \in licenses :
         /\ l.max_seats >= 1
         /\ last.msg = SeatLimitMsg(l.max_seats)
         /\ LiveCount(l.key) = l.max_seats

\* The effect of Activate(k, m, u) on a pair whose live row is `row`: success
\* with a token for the pair, no row added, the license's live count kept,
\* and no row changed but the username of `row` when the request carries one.
ReactivationEffect(k, m, u) ==
    LET row == CHOOSE a \in LiveRows(k, m) : TRUE
    IN  /\ last'.op = "activate"
        /\ last'.code = 200
        /\ last'.body.token.key = k
        /\ last'.body.token.machine = m
        /\ RowIds(activations') = RowIds(activations)
        /\ LiveCount(k)' = LiveCount(k)
        /\ activations' =
             IF u \notin {None, ""}
             THEN (activations \ {row}) \cup {[row EXCEPT !.username = u]}
             ELSE activations

\* C4 as stated (Spec): Activate for a pair that has a non-revoked row always
\* succeeds, returns a token, adds no row, keeps the live count and changes
\* nothing but the username when one is supplied.
C4_AsStated ==
    [][last'.op = "activate" =>
       \A k \in Keys, m \in Machines, u \in Usernames :
         (LiveRows(k, m) # {} /\ Activate(k, m, u))
         => ReactivationEffect(k, m, u)]_vars

\* C4 amended (Spec): Activate from a machine that is not banned, on a
\* license that is not expired, for a pair that has a non-revoked row always
\* succeeds and returns a token, whatever the live count and max_seats are;
\* it adds no row, keeps the license's live count, and changes nothing but
\* the row's username when the request supplies one.
C4_IdempotentReactivation ==
    [][last'.op = "activate" =>
       \A k \in Keys, m \in Machines, u \in Usernames :
         ( /\ LiveRows(k, m) # {}
           /\ m \notin banned
           /\ Unexpired(k)
           /\ Activate(k, m, u) )
         => ReactivationEffect(k, m, u)]_vars

\* An Activate succeeded on a license that holds more live rows than
\* max_seats: the seat check was not applied to it.
C4_Witness ==
    /\ last.op = "activate"
    /\ last.code = 200
    /\ \E l \in licenses :
         /\ l.key = last.body.token.key
         /\ LiveCount(l.key) > l.max_seats
         /\ LiveRows(l.key, last.body.token.machine) # {}

\* The latest step was a successful Deactivate of pair (k, m).
JustDeactivated(k, m) ==
    /\ last.op = "deactivate"
    /\ last.code = 200
    /\ \E a \in PairRows(k, m) : a.id = last.row /\ a.revoked

\* Activate(k, m, u) succeeds and adds one row for the pair, non-revoked and
\* with an id no row had; every earlier row is kept as it was, so the row
\* Deactivate revoked is still there and still revoked.
ReactivationAddsRow(k, m) ==
    /\ last'.op = "activate"
    /\ last'.code = 200
    /\ \E new \in activations' :
         /\ new.id \notin RowIds(activations)
         /\ new.license_key = k /\ new.machine_id = m /\ ~new.revoked
         /\ activations' = activations \cup {new}
    /\ \E a \in activations' : a.id = last.row /\ a.revoked
    /\ Cardinality(PairRows(k, m))' = Cardinality(PairRows(k, m)) + 1

\* C5 as stated (Spec): a successful Deactivate(L, M) followed by
\* Activate(L, M) succeeds and creates a new row distinct from the revoked one,
\* which stays present and revoked; the pair's rows grow by one.
C5_AsStated ==
    [][last'.op = "activate" =>
       \A k \in Keys, m \in Machines, u \in Usernames :
         (JustDeactivated(k, m) /\ Activate(k, m, u))
         => ReactivationAddsRow(k, m)]_vars

\* C5 amended (Spec): a successful Deactivate(L, M) followed by
\* Activate(L, M), with M not banned, L not expired and fewer live rows of L
\* than max_seats, succeeds and creates a new row distinct from the revoked
\* one, which stays present and revoked; the pair's rows grow by one.
C5_ReactivateAfterDeactivate ==
    [][last'.op = "activate" =>
       \A k \in Keys, m \in Machines, u \in Usernames :
         ( /\ JustDeactivated(k, m)
           /\ m \notin banned
           /\ Unexpired(k)
           /\ \E l \in licenses : l.key = k /\ LiveCount(k) < l.max_seats
           /\ Activate(k, m, u) )
         => ReactivationAddsRow(k, m)]_vars

\* Activate has just created the newest row, for a pair that also has an
\* older, revoked row.
C5_Witness ==
    /\ last.op = "activate"
    /\ last.code = 200
    /\ last.row = nextId - 1
    /\ \E new \in activations, old \in activations :
         /\ new.id = last.row /\ ~new.revoked /\ new.username = None
         /\ old.id < new.id /\ old.revoked
         /\ old.license_key = new.license_key
         /\ old.machine_id = new.machine_id

CoreOps == {"activate", "validate", "deactivate", "ban"}

\* C6 (Spec): no step sets the revoked flag of a row back to false, and no
\* Activate, Validate, Deactivate or ban step removes an Activation row.
C6_RevokedIsMonotonic ==
    [][ /\ \A a \in activations : \A b \in activations' :
             (b.id = a.id /\ a.revoked) => b.revoked
        /\ last'.op \in CoreOps =>
             \A a \in activations : \E b \in activations' : b.id = a.id ]_vars

\* A pair was revoked and activated again, and a core operation has run
\* since: the revoked row is still there beside the live one.
C6_Witness ==
    /\ last.op \in {"validate", "deactivate"}
    /\ \E a \in activations, b \in activations :
         /\ a.revoked /\ ~b.revoked /\ a.id < b.id
         /\ a.license_key = b.license_key /\ a.machine_id = b.machine_id

\* C7 (Spec): Deactivate(L, M) on a pair without a non-revoked row answers
\* 404 "Active activation not found" and changes no row; a Deactivate that
\* follows a successful Deactivate of the same pair fails.
C7_DeactivateNeedsLiveRow ==
    [][last'.op = "deactivate" =>
       \A k \in Keys, m \in Machines, u \in Usernames :
         /\ (LiveRows(k, m) = {} /\ Deactivate(k, m, u))
            => /\ last'.op = "deactivate"
               /\ last'.code = 404
               /\ last'.msg = "Active activation not found"
               /\ store' = store
         /\ (JustDeactivated(k, m) /\ Deactivate(k, m, u))
            => last'.code = 404 ]_vars

\* A Deactivate was refused for a pair that had been deactivated before.
C7_Witness ==
    /\ last.op = "deactivate"
    /\ last.code = 404
    /\ \E k \in Keys, m \in Machines :
         PairRows(k, m) # {} /\ LiveRows(k, m) = {}

\* Machine m is not banned, token t decodes and names machine m, and t's
\* license exists, is not expired and has a non-revoked activation for m.
Entitled(t, m) ==
    /\ m \notin banned
    /\ t # BadToken
    /\ t.machine = m
    /\ Unexpired(t.key)
    /\ LiveRows(t.key, m) # {}

\* Token t is presented by the machine it names, whose activation of the
\* token's license was revoked and has not been renewed.
StaleToken(t, m) ==
    /\ t # BadToken
    /\ t.machine = m
    /\ PairRows(t.key, m) # {}
    /\ LiveRows(t.key, m) = {}

C9_BanRejectsKeepsRow ==
    [][ /\ last'.op = "activate" =>
             \A m \in banned : \A k \in Keys, u \in Usernames :
               Activate(k, m, u) =>
                 /\ last'.code = 403
                 /\ last'.msg = "This machine has been banned"
                 /\ activations' = activations
        /\ last'.op = "validate" =>
             \A m \in banned : \A t \in Tokens :
               Validate(t, m) =>
                 /\ ~last'.body.valid
                 /\ last'.body.message = "This machine has been banned"
                 /\ activations' = activations
        /\ last'.op = "ban" => activations' = activations
        /\ banned \subseteq banned' ]_vars

\* An Activate was refused for the one banned machine, which still holds a
\* non-revoked activation.
C9_Witness ==
    /\ last.op = "activate"
    /\ last.msg = "This machine has been banned"
    /\ \E m \in Machines :
         /\ banned = {m}
         /\ \E k \in Keys : LiveRows(k, m) # {}

\* C10 (Spec): while a BannedMachine row exists for machine m, Activate,
\* Validate and Deactivate called with m are all rejected, and no core
\* operation adds or removes a BannedMachine row.
C10_BanBlocksEveryCoreOperation ==
    [][ /\ last'.op = "activate" =>
             \A m \in banned : \A k \in Keys, u \in Usernames :
               Activate(k, m, u) => last'.code # 200
        /\ last'.op = "validate" =>
             \A m \in banned : \A t \in Tokens :
               Validate(t, m) => ~last'.body.valid
        /\ last'.op = "deactivate" =>
             \A m \in banned : \A k \in Keys, u \in Usernames :
               Deactivate(k, m, u) => last'.code # 200
        /\ last'.op \in {"activate", "validate", "deactivate"} =>
             banned' = banned ]_vars

\* The response of activate to a banned machine: the same HTTPException
\* whatever the request names and whatever the store holds.
BannedFailure ==
    [op |-> "activate", code |-> 403, msg |-> "This machine has been banned",
     body |-> [valid |-> FALSE, plan |-> "", email |-> "", expired |-> FALSE,
               expiry_date |-> None, message |-> None, license_key |-> None,
               token |-> BadToken],
     row |-> 0]

\* The response of validate to a banned machine.
BannedAnswer ==
    [op |-> "validate", code |-> 200, msg |-> "",
     body |-> [valid |-> FALSE, plan |-> "", email |-> "", expired |-> FALSE,
               expiry_date |-> None,
               message |-> "This machine has been banned",
               license_key |-> None, token |-> BadToken],
     row |-> 0]

\* C11 (Spec): for a banned machine the whole response of Activate is one
\* fixed Banned failure and the whole response of Validate one fixed ban
\* answer, in every reachable state and for every key, username and token:
\* two states that agree on the ban registry give the same outcome, whether
\* the license exists, is expired or full, and whether the token decodes,
\* matches the machine or names a license or live activation.
C11_BannedOutcomeIsConstant ==
    [][ /\ last'.op = "activate" =>
             \A m \in banned : \A k \in Keys, u \in Usernames :
               Activate(k, m, u) => (last' = BannedFailure /\ store' = store)
        /\ last'.op = "validate" =>
             \A m \in banned : \A t \in Tokens :
               Validate(t, m) => last' = BannedAnswer ]_vars

\* A Validate was answered with the ban response although the banned machine
\* holds a live activation of an unexpired license.
C11_Witness ==
    /\ last = BannedAnswer
    /\ \E m \in Machines :
         /\ banned = {m}
         /\ \E k \in Keys : LiveRows(k, m) # {} /\ Unexpired(k)

\* The answer of validate to a token presented by another machine than the
\* one it was issued for.
MismatchAnswer ==
    [op |-> "validate", code |-> 200, msg |-> "",
     body |-> [valid |-> FALSE, plan |-> "", email |-> "", expired |-> FALSE,
               expiry_date |-> None, message |-> "Machine ID mismatch",
               license_key |-> None, token |-> BadToken],
     row |-> 0]

CurrentAnswer(l) ==
    [valid |-> l.expiry >= today, expired |-> l.expiry < today,
     plan |-> l.plan, email |-> l.email, expiry_date |-> DateStr(l.expiry),
     license_key |-> l.key, message |-> None, token |-> BadToken]

\* C13 (SpecEdit): for every token issued for a pair that is still live and
\* unbanned, whatever expiry, plan and email the token embeds, Validate
\* answers from the License row as it is now: valid:false, expired:true when
\* its expiry is before today (the date advanced or the admin edited it),
\* valid:true, expired:false when expiry is today or later (edited back), with
\* the row's current plan, email and expiry_date.
C13_ValidateReadsCurrentLicense ==
    [][last'.op = "validate" =>
       \A t \in IssuedTokens, m \in Machines :
         ( /\ t.machine = m
           /\ m \notin banned
           /\ LiveRows(t.key, m) # {}
           /\ Validate(t, m) )
         => \E l \in licenses :
              l.key = t.key /\ last'.body = CurrentAnswer(l)]_vars

\* A Validate was answered expired on day 1 for a license that expired on
\* day 0, with the plan and email the admin patched in: no issued token
\* carries this combination with an expiry before today's date unless it
\* was read from the row.
C13_Witness ==
    /\ last.op = "validate"
    /\ today = 1
    /\ last.body.expired /\ ~last.body.valid
    /\ last.body.expiry_date = DateStr(0)
    /\ last.body.plan = "Starter"
    /\ last.body.email = "it@acme.io"
    /\ \E l \in licenses : last.body = CurrentAnswer(l)

\* The failure Activate(k, m, u) must report when one of its first three
\* checks fails, taken in the order ban, license lookup, expiry; <<200, "">>
\* when all three pass.
FirstFailure(k, m) ==
    IF m \in banned THEN <<403, "This machine has been banned">>
    ELSE IF \A l \in licenses : l.key # k THEN <<404, "License not found">>
    ELSE IF ~Unexpired(k) THEN <<403, "License has expired">>
    ELSE <<200, "">>

\* The response of the step is the one the order of checks prescribes for an
\* Activate of pair (k, m): the first failure, or else success or a seat
\* refusal, the latter only for a pair without a live row on a full license.
OrderedOutcome(k, m) ==
    IF FirstFailure(k, m) # <<200, "">>
    THEN <<last'.code, last'.msg>> = FirstFailure(k, m)
    ELSE \E l \in licenses :
           /\ l.key = k
           /\ \/ last'.code = 200
              \/ /\ last'.code = 403
                 /\ last'.msg = SeatLimitMsg(l.max_seats)
                 /\ LiveRows(k, m) = {}
                 /\ LiveCount(k) >= l.max_seats

\* C14 (Spec): Activate reports the first failing check in the order ban,
\* license lookup, expiry, seat ledger. A banned machine gets Banned even for
\* a missing license, a missing license gets LicenseNotFound, an expired one
\* LicenseExpired even when the pair is live or the license is full; when
\* the three pass the call succeeds or is refused with SeatLimitReached, and
\* it is refused only for a pair without a live row on a full license.
C14_ActivateCheckOrder ==
    [][last'.op = "activate" =>
       \A k \in Keys, m \in Machines :
         (\E u \in Usernames : Activate(k, m, u)) => OrderedOutcome(k, m)]_vars

\* Activate answered "License has expired" on a license that is also full:
\* the expiry check was reported, not the seat check.
C14_Witness ==
    /\ last.op = "activate"
    /\ last.code = 403
    /\ last.msg = "License has expired"
    /\ \E l \in licenses :
         /\ l.expiry < today
         /\ l.max_seats >= 1
         /\ LiveCount(l.key) >= l.max_seats

\* License key k holds at least as many non-revoked activations as its
\* max_seats allows: it is full, or max_seats was lowered below the count.
AtOrOverCap(k) ==
    \E l \in licenses : l.key = k /\ LiveCount(k) >= l.max_seats

\* Machine m is not banned and license key k is not expired: apart from the
\* seat count nothing stands against the pair.
InGoodStanding(k, m) == m \notin banned /\ Unexpired(k)

\* Activate(k, m, u) is refused with "Seat limit reached" and writes no row.
SeatRefusal(k) ==
    /\ last'.code = 403
    /\ \E l \in licenses : l.key = k /\ last'.msg = SeatLimitMsg(l.max_seats)
    /\ activations' = activations

\* The response to a live pair of a license at or over its cap: Validate
\* answers valid; Activate succeeds without a new row.
StillValid == last'.body.valid

StillReactivates(k) ==
    /\ last'.code = 200
    /\ RowIds(activations') = RowIds(activations)
    /\ LiveCount(k)' = LiveCount(k)

\* License key k holds more non-revoked activations than its max_seats:
\* max_seats was lowered below the count.
OverCap(k) == \E l \in licenses : l.key = k /\ LiveCount(k) > l.max_seats

\* The step is refused with "Seat limit reached" for license key k.
SeatLimitAnswer(k) ==
    /\ last'.code = 403
    /\ \E l \in licenses : l.key = k /\ last'.msg = SeatLimitMsg(l.max_seats)

\* C15 as stated (Spec): an admin update writes no Activation row. While a
\* license holds more live activations than max_seats, each of its live pairs
\* still validates as valid and is re-activated with success and without a
\* new row; while it holds max_seats or more, Activate is refused with
\* SeatLimitReached only for a pair without a live row.
C15_AsStated ==
    [][ /\ last'.op = "update_license" => activations' = activations
        /\ last'.op = "validate" =>
             \A t \in Tokens \ {BadToken}, m \in Machines :
               ( /\ t.machine = m
                 /\ OverCap(t.key)
                 /\ LiveRows(t.key, m) # {}
                 /\ Validate(t, m) )
               => StillValid
        /\ last'.op = "activate" =>
             \A k \in Keys, m \in Machines, u \in Usernames :
               /\ ( /\ AtOrOverCap(k)
                    /\ SeatLimitAnswer(k)
                    /\ Activate(k, m, u) )
                  => LiveRows(k, m) = {}
               /\ ( /\ OverCap(k)
                    /\ LiveRows(k, m) # {}
                    /\ Activate(k, m, u) )
                  => StillReactivates(k) ]_vars

\* C15 amended (Spec): the same for live pairs in good standing, that is
\* whose machine is not banned and whose license is not expired: max_seats
\* plays no part for them, the ban and expiry checks still do. For a pair in
\* good standing without a live row, Activate is refused with
\* SeatLimitReached and creates no row.
C15_LoweredCapIsNotRetroactive ==
    [][ /\ last'.op = "update_license" => activations' = activations
        /\ last'.op = "validate" =>
             \A t \in Tokens \ {BadToken}, m \in Machines :
               ( /\ t.machine = m
                 /\ AtOrOverCap(t.key)
                 /\ InGoodStanding(t.key, m)
                 /\ LiveRows(t.key, m) # {}
                 /\ Validate(t, m) )
               => StillValid
        /\ last'.op = "activate" =>
             \A k \in Keys, m \in Machines, u \in Usernames :
               /\ ( /\ AtOrOverCap(k)
                    /\ SeatLimitAnswer(k)
                    /\ Activate(k, m, u) )
                  => LiveRows(k, m) = {}
               /\ ( /\ AtOrOverCap(k)
                    /\ InGoodStanding(k, m)
                    /\ Activate(k, m, u) )
                  => IF LiveRows(k, m) # {} THEN StillReactivates(k)
                                            ELSE SeatRefusal(k) ]_vars

\* A Validate was answered valid on a license that holds more live
\* activations than its max_seats: the cap was lowered under them.
C15_Witness ==
    /\ last.op = "validate"
    /\ last.body.valid
    /\ \E l \in licenses :
         /\ l.key = last.body.license_key
         /\ LiveCount(l.key) > l.max_seats

\* License key k has a license whose max_seats is 0.
ZeroSeats(k) == \E l \in licenses : l.key = k /\ l.max_seats = 0

\* C16 as stated (Spec): no Activate on a license whose max_seats is 0
\* succeeds, admin updates to 0 under live activations included.
C16_AsStated ==
    [][last'.op = "activate" =>
       \A k \in Keys, m \in Machines, u \in Usernames :
         (ZeroSeats(k) /\ Activate(k, m, u)) => last'.code # 200]_vars

\* C16 amended (Spec): while max_seats of a license is 0, no Activate on it
\* creates an Activation row or raises its live count, and every Activate
\* for a pair without a live row fails; an Activate succeeds only for a pair
\* that is already live, in good standing, and then adds no row.
C16_ZeroSeatsAdmitNoNewRow ==
    [][last'.op = "activate" =>
       \A k \in Keys, m \in Machines, u \in Usernames :
         (ZeroSeats(k) /\ Activate(k, m, u)) =>
           /\ RowIds(activations') = RowIds(activations)
           /\ LiveCount(k)' = LiveCount(k)
           /\ LiveRows(k, m) = {} => last'.code # 200
           /\ (LiveRows(k, m) = {} /\ InGoodStanding(k, m)) =>
                (last'.code = 403 /\ last'.msg = SeatLimitMsg(0))
           /\ last'.code = 200 <=>
                (LiveRows(k, m) # {} /\ InGoodStanding(k, m))]_vars

\* An Activate was refused with "Seat limit reached (0 seats)" on a license
\* whose max_seats was set to 0 while it had a live activation.
C16_Witness ==
    /\ last.op = "activate"
    /\ last.code = 403
    /\ last.msg = SeatLimitMsg(0)
    /\ \E l \in licenses : l.max_seats = 0 /\ LiveCount(l.key) >= 1

\* C17 (Spec): every Validate returns a body (HTTP 200) and never an error,
\* and every body with valid = false carries a non-empty message.
C17_ValidateAlwaysExplains ==
    [][last'.op = "validate" =>
         /\ last'.code = 200
         /\ ~last'.body.valid => last'.body.message \notin {None, ""}]_vars

\* C18 (Spec): an Activate step inserts or rewrites at most one Activation
\* row and removes none, writes no License or BannedMachine row, and when it
\* fails (any response but 200) it leaves all three tables as they were.
C18_ActivateWritesOneRow ==
    [][last'.op = "activate" =>
         /\ Cardinality(activations' \ activations) <= 1
         /\ Cardinality(RowIds(activations') \ RowIds(activations))
              + Cardinality({a \in activations :
                               \E b \in activations' : b.id = a.id /\ b # a})
              <= 1
         /\ RowIds(activations) \subseteq RowIds(activations')
         /\ licenses' = licenses
         /\ banned' = banned
         /\ last'.code # 200 => store' = store]_vars

\* An Activate succeeded and wrote one row, with the username it was given,
\* beside an older row that it left as it was.
C18_Witness ==
    /\ last.op = "activate"
    /\ last.code = 200
    /\ last.row # 0
    /\ \E a \in activations, b \in activations :
         /\ a.id = last.row /\ a.username = "alice"
         /\ b.id < a.id /\ b.username = None

\* Pair (k, m) was activated and revoked and has no live row now.
RevokedPair(k, m) == PairRows(k, m) # {} /\ LiveRows(k, m) = {}

\* The latest step was a successful Deactivate on license key k that left it
\* one live activation short of max_seats: k was exactly full before it.
FreedOneSeat(k) ==
    /\ last.op = "deactivate"
    /\ last.code = 200
    /\ \E a \in activations : a.id = last.row /\ a.license_key = k
    /\ \E l \in licenses : l.key = k /\ LiveCount(k) = l.max_seats - 1

\* A successful Deactivate lowers the live count of its license by one.
DeactivateFreesOne ==
    last'.op = "deactivate" =>
      \A k \in Keys, m \in Machines, u \in Usernames :
        (LiveRows(k, m) # {} /\ Deactivate(k, m, u)) =>
          /\ last'.code = 200
          /\ LiveCount(k)' = LiveCount(k) - 1

\* C19 as stated (Spec): Activate for a revoked pair on a license whose
\* other machines hold max_seats (or more) live activations is refused with
\* SeatLimitReached and creates no row; a successful Deactivate lowers the
\* live count by exactly one; and right after one on a license that was
\* exactly full, Activate for a machine without a live row succeeds.
C19_AsStated ==
    [][ /\ DeactivateFreesOne
        /\ last'.op = "activate" =>
             \A k \in Keys, m \in Machines, u \in Usernames :
               /\ (RevokedPair(k, m) /\ AtOrOverCap(k) /\ Activate(k, m, u))
                  => SeatRefusal(k)
               /\ (FreedOneSeat(k) /\ LiveRows(k, m) = {} /\ Activate(k, m, u))
                  => (last'.code = 200 /\ LiveCount(k)' = LiveCount(k) + 1)
      ]_vars

\* C19 amended (Spec): the same for a machine that is not banned and a
\* license that is not expired, the two checks Activate makes before it
\* looks at the seat ledger.
C19_ReactivationIsSeatChecked ==
    [][ /\ DeactivateFreesOne
        /\ last'.op = "activate" =>
             \A k \in Keys, m \in Machines, u \in Usernames :
               /\ ( /\ RevokedPair(k, m) /\ AtOrOverCap(k)
                    /\ InGoodStanding(k, m)
                    /\ Activate(k, m, u) )
                  => SeatRefusal(k)
               /\ ( /\ FreedOneSeat(k) /\ LiveRows(k, m) = {}
                    /\ InGoodStanding(k, m)
                    /\ Activate(k, m, u) )
                  => (last'.code = 200 /\ LiveCount(k)' = LiveCount(k) + 1)
      ]_vars

\* The scenario of the specification: M1's activation was revoked, another
\* machine took the seat, and an Activate was refused on the full license.
C19_Witness ==
    /\ last.op = "activate"
    /\ last.code = 403
    /\ banned = {}
    /\ \E l \in licenses, m1 \in Machines, m2 \in Machines :
         /\ l.max_seats >= 1
         /\ l.expiry >= today
         /\ last.msg = SeatLimitMsg(l.max_seats)
         /\ RevokedPair(l.key, m1)
         /\ LiveRows(l.key, m2) # {}
         /\ LiveCount(l.key) = l.max_seats

\* Everything a handler reads: the three tables, the id sequence, the date.
\* The response of every operation is a function of these and of its request.
Observed == <<licenses, activations, banned, nextId, today>>

\* C20 (Spec): a Validate step, whatever its input and answer, leaves every
\* License, Activation and BannedMachine row, the id sequence and the date as
\* they were; what the operations that follow read is what they would have
\* read without it.
C20_ValidateIsReadOnly ==
    [][last'.op = "validate" =>
         /\ licenses' = licenses
         /\ activations' = activations
         /\ banned' = banned
         /\ Observed' = Observed]_vars

\* A Validate found a license expired and its pair live, and the live row is
\* still there, not revoked.
C20_Witness ==
    /\ last.op = "validate"
    /\ last.body.expired
    /\ \E a \in activations, l \in licenses :
         /\ a.license_key = last.body.license_key
         /\ l.key = a.license_key
         /\ ~a.revoked
         /\ l.expiry < today

====
